---- MODULE Spec2Model ----
(***************************************************************************)
(* Model of the VIEWS forecast API services:                               *)
(*   services/data_service.py      DataService (the store and its lookups)  *)
(*   services/forecast_service.py  ForecastService (queries and enrichment) *)
(*                                                                         *)
(* Conventions.                                                            *)
(*  - A pandas DataFrame is a sequence of rows (records) in file order.    *)
(*  - Python None and pandas NaN in a numeric cell are both NULL.          *)
(*  - Probabilities are integers scaled by 10000, coordinates are integers  *)
(*    scaled by 100 (hundredths of a degree).  The values produced by      *)
(*    _generate_synthetic_metrics are in millionths.                       *)
(*  - A query handler is one action: it runs to completion and leaves the   *)
(*    call, its outcome (the exception class, or "ok") and the returned     *)
(*    list in call / outcome / detail / result.                            *)
(***************************************************************************)
EXTENDS Integers, Sequences, FiniteSets, TLC

VARIABLES
    is_loaded,             \* DataService.is_loaded
    assigned,              \* which of the four DataFrames are not None
    pgm_data,              \* DataService.pgm_data (primary forecasts)
    pgm_has_country,       \* 'country_id' in pgm_data.columns
    pgm_has_dich,          \* 'main_dich' in pgm_data.columns
    country_data,          \* DataService.country_data
    hdi_data,              \* DataService.hdi_data (uncertainty intervals)
    timeseries_data,       \* DataService.timeseries_data (coordinates)
    ts_lat_col,            \* name of the latitude column: "latitude" or "lat"
    ts_has_country,        \* 'country_id' in timeseries_data.columns
    country_grid_mapping,  \* DataService.country_grid_mapping
    rng,                   \* the state of numpy's global generator (np.random)
    threads,               \* the invocations of _generate_synthetic_metrics in progress
    call,                  \* the last call and its arguments
    outcome,               \* "none", "ok" or the class of the exception raised
    detail,                \* the message of the exception raised
    result                 \* the value the last call returned

vars == <<is_loaded, assigned, pgm_data, pgm_has_country, pgm_has_dich, country_data,
          hdi_data, timeseries_data, ts_lat_col, ts_has_country, country_grid_mapping,
          rng, threads, call, outcome, detail, result>>

store == <<is_loaded, assigned, pgm_data, pgm_has_country, pgm_has_dich, country_data,
           hdi_data, timeseries_data, ts_lat_col, ts_has_country, country_grid_mapping>>

----------------------------------------------------------------------------
(* Values and generic helpers                                              *)

NULL == -999999

NoName == "None"

SeqsUpTo(S, n) == UNION {[1..k -> S] : k \in 0..n}

Range(s) == {s[i] : i \in 1..Len(s)}

SetMin(S) == CHOOSE y \in S : \A z \in S : y <= z

SetMax(S) == CHOOSE y \in S : \A z \in S : y >= z

RECURSIVE SortedSeq(_)
SortedSeq(S) ==
    IF S = {} THEN << >>
    ELSE LET m == SetMin(S) IN <<m>> \o SortedSeq(S \ {m})

\* list(dict.fromkeys(s)): the distinct elements of s in order of first occurrence
RECURSIVE Unique(_)
Unique(s) ==
    IF s = << >> THEN << >>
    ELSE LET init == Unique(SubSeq(s, 1, Len(s) - 1))
             last == s[Len(s)]
         IN IF last \in Range(init) THEN init ELSE Append(init, last)

\* Python truthiness of an Optional[int] / float cell: None and 0 are falsy
Truthy(x) == x # NULL /\ x # 0

\* Python "x or y"
PyOr(x, y) == IF Truthy(x) THEN x ELSE y

\* pd.isna / pd.notna
IsNa(x) == x = NULL

\* Python max(a, b) and min(a, b)
PyMax(a, b) == IF a >= b THEN a ELSE b

PyMin(a, b) == IF a <= b THEN a ELSE b

----------------------------------------------------------------------------
(* numpy's global generator                                                *)

\* The state of the Mersenne Twister is given by the seed it was last seeded
\* with and the number of draws made since.  A seed is a 32-bit value carried
\* as its two 16-bit halves <<high, low>>; << >> is the state of a generator
\* that np.random.seed was never called on (seeded from the OS at import).
Unseeded == [seed |-> << >>, pos |-> 0]

\* np.random.random_sample() after np.random.seed(s): the first draws of the
\* stream of seed s, as fractions scaled by 10000, for the seeds the model uses
MtTable ==
    { <<0, 0, <<5488, 7151, 6027, 5448, 4236, 6458, 4375, 8917, 9636, 3834, 7917,
                5288, 5680, 9255, 710, 871, 202, 8326>>>>,
      <<0, 100, <<5434, 2783, 4245, 8447, 47, 1215, 6707, 8258, 1367, 5750, 8913,
                  2092, 1853, 1083, 2196, 9786, 8116, 1719>>>>,
      <<0, 5000, <<2290, 3606, 7276, 1126, 6077, 8157, 9812, 637, 7999, 969, 4008,
                   6621, 9655, 4809, 2641, 5874, 585, 5956>>>>,
      <<0, 9990, <<3450, 9137, 7214, 7117, 3184, 5041, 8337, 275, 5912, 4798, 4810,
                   4021, 5251, 5064, 2215, 4499, 9367, 5723>>>>,
      <<0, 12000, <<4030, 4049, 4513, 3980, 7609, 831, 2913, 2835, 7169, 3961, 1160,
                    4325, 9061, 1050, 2984, 1468, 3199, 2403>>>>,
      <<65535, 60536, <<3164, 9881, 7754, 6079, 7236, 7085, 4407, 3143, 4581, 7587,
                        5745, 6959, 4129, 8877, 3059, 5957, 1790, 7403>>>> }

----------------------------------------------------------------------------
(* DataService: construction and load_data                                 *)

\* np.random.seed(42) followed by np.random.uniform(lo, hi): the first draws of
\* the seeded stream, as fractions scaled by 10000
SeededUniform42 == <<3745, 9507, 7320, 5987, 1560, 1560, 581, 8662, 6011, 7081>>

\* draw number k of the stream of a seed
RandomSample(seed, k) ==
    IF seed = <<0, 42>> THEN SeededUniform42[((k - 1) % Len(SeededUniform42)) + 1]
    ELSE LET e == CHOOSE t \in MtTable : <<t[1], t[2]>> = seed
         IN e[3][((k - 1) % Len(e[3])) + 1]

\* x % 2**32 of a Python int, as halves
Mod2Pow32(x) ==
    IF x >= 0 THEN <<x \div 65536, x % 65536>>
    ELSE <<65535 - ((0 - x - 1) \div 65536), 65535 - ((0 - x - 1) % 65536)>>

\* np.random.uniform(lo, hi) for draw number k of that stream, in hundredths
UniformDraw(k, lo, hi) ==
    lo + ((hi - lo) * SeededUniform42[((k - 1) % Len(SeededUniform42)) + 1]) \div 10000

\* _create_synthetic_coordinates_from_pgm: one coordinate row per distinct grid
\* of the primary data, in order of first occurrence, country (i % 5) + 1
CreateSyntheticCoordinatesFromPgm(pgm) ==
    LET unique_grids == Unique([i \in 1..Len(pgm) |-> pgm[i].pg_id])
    IN [k \in 1..Len(unique_grids) |->
           [priogrid_id |-> unique_grids[k],
            latitude    |-> UniformDraw(2 * k - 1, -6000, 7000),
            longitude   |-> UniformDraw(2 * k, -18000, 18000),
            country_id  |-> ((k - 1) % 5) + 1]]

\* groupby(key)[val].apply(list).to_dict() over a sequence of <<key, val>> pairs:
\* groups with a NaN key are dropped, each list keeps the rows' order (and
\* their repetitions)
GroupLists(pairs) ==
    LET keys == {pairs[i][1] : i \in 1..Len(pairs)} \ {NULL}
        Of(k) == SelectSeq(pairs, LAMBDA q : q[1] = k)
    IN [k \in keys |-> [i \in 1..Len(Of(k)) |-> Of(k)[i][2]]]

\* timeseries_data[['country_id', 'priogrid_id']].drop_duplicates()
RECURSIVE DropDuplicatePairs(_)
DropDuplicatePairs(rows) ==
    IF rows = << >> THEN << >>
    ELSE LET init == DropDuplicatePairs(SubSeq(rows, 1, Len(rows) - 1))
             last == rows[Len(rows)]
         IN IF \E i \in 1..Len(init) :
                  /\ init[i].country_id = last.country_id
                  /\ init[i].priogrid_id = last.priogrid_id
            THEN init ELSE Append(init, last)

\* the synthetic fallback of _create_mappings: the distinct grids split over
\* five countries, the last one taking the remainder
SyntheticMapping(pgm) ==
    LET unique_grids == Unique([i \in 1..Len(pgm) |-> pgm[i].pg_id])
        n == Len(unique_grids)
        grids_per_country == n \div 5
        StartIdx(i) == i * grids_per_country
        EndIdx(i) == IF i < 4 THEN StartIdx(i) + grids_per_country ELSE n
    IN [c \in 1..5 |-> SubSeq(unique_grids, StartIdx(c - 1) + 1, EndIdx(c - 1))]

\* _create_mappings
CreateMappings(pgm, pgmHasCountry, ts, tsHasCountry) ==
    IF pgmHasCountry
    THEN GroupLists([i \in 1..Len(pgm) |-> <<pgm[i].country_id, pgm[i].pg_id>>])
    ELSE IF tsHasCountry
         THEN LET d == DropDuplicatePairs(ts)
              IN GroupLists([i \in 1..Len(d) |-> <<d[i].country_id, d[i].priogrid_id>>])
         ELSE SyntheticMapping(pgm)

\* DataService.__init__
InitStore ==
    /\ is_loaded = FALSE
    /\ assigned = {}
    /\ pgm_data = << >>
    /\ pgm_has_country = FALSE
    /\ pgm_has_dich = FALSE
    /\ country_data = << >>
    /\ hdi_data = << >>
    /\ timeseries_data = << >>
    /\ ts_lat_col = "latitude"
    /\ ts_has_country = FALSE
    /\ country_grid_mapping = << >>

\* MetricSelection: the five include flags and the conflict types
MetricSelection(map, hdi_50, hdi_90, hdi_99, thresholds, conflict_types) ==
    [include_map |-> map, include_hdi_50 |-> hdi_50, include_hdi_90 |-> hdi_90,
     include_hdi_99 |-> hdi_99, include_thresholds |-> thresholds,
     conflict_types |-> conflict_types]

\* the values of the ConflictType enumeration
ConflictTypes == {"sb", "ns", "os"}

\* the validation pydantic runs when a MetricSelection is constructed:
\* conflict_types is a List[ConflictType]
ValidSelection(metrics) ==
    \A i \in 1..Len(metrics.conflict_types) :
        metrics.conflict_types[i] \in ConflictTypes

\* MetricSelection(): the defaults of the schema
DefaultMetrics == MetricSelection(TRUE, FALSE, TRUE, FALSE, TRUE, <<"sb">>)

NoCall ==
    [op |-> "none", grid_ids |-> << >>, country_id |-> NULL, month_id |-> NULL,
     month_start |-> NULL, month_end |-> NULL, metrics |-> DefaultMetrics,
     base_prob |-> NULL]

\* load_data with every file read successfully.  pgmFile, countryFile, hdiFile
\* and tsFile are the tables the four loaders produce (read from the file, or
\* generated when the file is missing); pgmFile.has_country and pgmFile.has_dich
\* tell whether the primary file has a country_id and a main_dich column (the
\* cells of a column the file does not have are NULL in the rows of the model,
\* and never read); tsFile.lat_col names the latitude and
\* longitude columns of the coordinate file ("latitude"/"longitude" or
\* "lat"/"lon").  The coordinate cells of a file are numbers (no NaN).
\* Reading a file leaves the generator alone; the synthetic coordinates seed
\* it with 42 and draw twice per distinct grid.
LoadData(PgmFiles, CountryFiles, HdiFiles, TsFiles) ==
    /\ ~is_loaded
    /\ call.op = "none"
    /\ \E pgmFile \in PgmFiles, countryFile \in CountryFiles,
          hdiFile \in HdiFiles, tsFile \in TsFiles :
         LET noCoords == tsFile.rows = << >>
             ts == IF noCoords THEN CreateSyntheticCoordinatesFromPgm(pgmFile.rows)
                   ELSE tsFile.rows
             \* pd.DataFrame([]) has no columns at all
             tsCountry == IF noCoords THEN ts # << >> ELSE tsFile.has_country
         IN /\ pgm_data' = pgmFile.rows
            /\ pgm_has_country' = pgmFile.has_country
            /\ pgm_has_dich' = pgmFile.has_dich
            /\ country_data' = countryFile
            /\ hdi_data' = hdiFile
            /\ timeseries_data' = ts
            /\ ts_lat_col' = IF noCoords THEN "latitude" ELSE tsFile.lat_col
            /\ ts_has_country' = tsCountry
            /\ country_grid_mapping' =
                   CreateMappings(pgmFile.rows, pgmFile.has_country, ts, tsCountry)
            /\ rng' = IF noCoords THEN [seed |-> <<0, 42>>, pos |-> 2 * Len(ts)]
                      ELSE rng
    /\ assigned' = {"pgm_data", "country_data", "hdi_data", "timeseries_data"}
    /\ is_loaded' = TRUE
    /\ UNCHANGED <<threads, call, outcome, detail, result>>

\* the four DataFrame attributes of the store
AllTables == {"pgm_data", "country_data", "hdi_data", "timeseries_data"}

\* the steps of load_data, in order
LoadSteps == <<"pgm_data", "country_data", "hdi_data", "timeseries_data", "mappings">>

\* the tables assigned when the step at position k of LoadSteps raises
LoadedBefore(k) == {LoadSteps[i] : i \in 1..(k - 1)} \ {"mappings"}

\* the flag set although the step raised
LoadDataFailsLoaded(PgmFiles, CountryFiles, HdiFiles, TsFiles) ==
    /\ ~is_loaded
    /\ call.op = "none"
    /\ \E k \in 1..Len(LoadSteps), pgmFile \in PgmFiles :
         /\ assigned' = assigned \cup LoadedBefore(k)
         /\ pgm_data' = IF k > 1 THEN pgmFile.rows ELSE pgm_data
         /\ detail' = LoadSteps[k]
    /\ is_loaded' = TRUE
    /\ call' = [NoCall EXCEPT !.op = "load_data"]
    /\ outcome' = "Exception"
    /\ result' = << >>
    /\ UNCHANGED <<pgm_has_country, pgm_has_dich, country_data, hdi_data,
                   timeseries_data, ts_lat_col, ts_has_country,
                   country_grid_mapping, rng, threads>>

\* load_data when the step at position k of LoadSteps raises (read_csv on an
\* unreadable file, a write of a generated table, a KeyError on a missing
\* column): the loaders before it have assigned their tables, the exception is
\* logged and raised again, and "self.is_loaded = True" is not reached.
LoadDataFails(PgmFiles, CountryFiles, HdiFiles, TsFiles) ==
    /\ ~is_loaded
    /\ call.op = "none"
    /\ \E k \in 1..Len(LoadSteps), pgmFile \in PgmFiles, countryFile \in CountryFiles,
          hdiFile \in HdiFiles, tsFile \in TsFiles :
         LET noCoords == tsFile.rows = << >>
             ts == IF noCoords THEN CreateSyntheticCoordinatesFromPgm(pgmFile.rows)
                   ELSE tsFile.rows
         IN /\ assigned' = assigned \cup LoadedBefore(k)
            /\ pgm_data' = IF k > 1 THEN pgmFile.rows ELSE pgm_data
            /\ pgm_has_country' = IF k > 1 THEN pgmFile.has_country ELSE pgm_has_country
            /\ pgm_has_dich' = IF k > 1 THEN pgmFile.has_dich ELSE pgm_has_dich
            /\ country_data' = IF k > 2 THEN countryFile ELSE country_data
            /\ hdi_data' = IF k > 3 THEN hdiFile ELSE hdi_data
            /\ timeseries_data' = IF k > 4 THEN ts ELSE timeseries_data
            /\ ts_lat_col' = IF k > 4 /\ ~noCoords THEN tsFile.lat_col ELSE ts_lat_col
            /\ ts_has_country' =
                   IF k > 4 THEN (IF noCoords THEN ts # << >> ELSE tsFile.has_country)
                   ELSE ts_has_country
            /\ rng' = IF k > 4 /\ noCoords
                      THEN [seed |-> <<0, 42>>, pos |-> 2 * Len(ts)] ELSE rng
            /\ detail' = LoadSteps[k]
    /\ call' = [NoCall EXCEPT !.op = "load_data"]
    /\ outcome' = "Exception"
    /\ result' = << >>
    /\ UNCHANGED <<is_loaded, country_grid_mapping, threads>>

----------------------------------------------------------------------------
(* DataService: lookups                                                    *)

Ok(rows) == [exc |-> "ok", detail |-> "", rows |-> rows]

Raise(exc, msg) == [exc |-> exc, detail |-> msg, rows |-> << >>]

\* An Optional[List[int]] argument
NoneList == [given |-> FALSE, ids |-> << >>]

SomeList(ids) == [given |-> TRUE, ids |-> ids]

\* Python truthiness of an Optional[List]: None and [] are falsy
ListTruthy(l) == l.given /\ l.ids # << >>

\* get_available_months
GetAvailableMonths ==
    IF ~is_loaded \/ "pgm_data" \notin assigned THEN << >>
    ELSE SortedSeq({pgm_data[i].month_id : i \in 1..Len(pgm_data)})

\* get_grid_data
GetGridData(grid_ids, month_ids) ==
    IF ~is_loaded THEN Raise("DataNotFoundError", "Data not loaded")
    ELSE LET query(r) ==
                 /\ r.pg_id \in Range(grid_ids)
                 /\ (ListTruthy(month_ids) => r.month_id \in Range(month_ids.ids))
             res == SelectSeq(pgm_data, query)
         IN IF res = << >>
            THEN Raise("DataNotFoundError", "No data found for grid IDs")
            ELSE Ok(res)

\* get_country_grids
GetCountryGrids(country_id) ==
    IF ~is_loaded THEN Raise("DataNotFoundError", "Data not loaded")
    ELSE LET grid_ids == IF country_id \in DOMAIN country_grid_mapping
                         THEN country_grid_mapping[country_id] ELSE << >>
         IN IF grid_ids = << >>
            THEN Raise("DataNotFoundError", "No grid cells found for country ID")
            ELSE Ok(grid_ids)

\* get_month_data.  A returned table with no_columns = TRUE is the bare
\* pd.DataFrame() of the "country not found" branch.
GetMonthData(month_id, country_id) ==
    IF ~is_loaded
    THEN [Raise("DataNotFoundError", "Data not loaded") EXCEPT !.rows = << >>]
             @@ [no_columns |-> FALSE]
    ELSE LET grids == GetCountryGrids(country_id)
             byCountry(r) ==
                 IF ~Truthy(country_id) THEN TRUE
                 ELSE IF pgm_has_country THEN r.country_id = country_id
                 ELSE r.pg_id \in Range(grids.rows)
             res == SelectSeq(pgm_data,
                              LAMBDA r : r.month_id = month_id /\ byCountry(r))
         IN IF Truthy(country_id) /\ ~pgm_has_country /\ grids.exc # "ok"
            THEN Ok(<< >>) @@ [no_columns |-> TRUE]
            ELSE IF res = << >>
            THEN Raise("DataNotFoundError", "No data found for month ID")
                     @@ [no_columns |-> FALSE]
            ELSE Ok(res) @@ [no_columns |-> FALSE]

\* get_hdi_data
GetHdiData(grid_ids, month_ids) ==
    IF "hdi_data" \notin assigned THEN << >>
    ELSE SelectSeq(hdi_data, LAMBDA r :
             /\ r.priogrid_id \in Range(grid_ids)
             /\ (ListTruthy(month_ids) => r.month_id \in Range(month_ids.ids)))

\* get_coordinates
GetCoordinates(grid_ids) ==
    IF "timeseries_data" \notin assigned \/ timeseries_data = << >> THEN << >>
    ELSE IF grid_ids = << >> THEN timeseries_data
    ELSE SelectSeq(timeseries_data, LAMBDA r : r.priogrid_id \in Range(grid_ids))

\* get_available_countries: the distinct (country_id, country) records of
\* country_data, or generic names from the mapping when country_data is None
GetAvailableCountries ==
    IF ~is_loaded THEN << >>
    ELSE IF "country_data" \in assigned THEN Unique(country_data)
    ELSE LET ks == SortedSeq(DOMAIN country_grid_mapping)
         IN [i \in 1..Len(ks) |-> [country_id |-> ks[i], country |-> "Country"]]

----------------------------------------------------------------------------
(* ForecastService: coordinates, calendar, record construction             *)

\* hashlib.md5(text.encode()).hexdigest()[:8] for the texts the model hashes.
\* The 32-bit value int(hex8, 16) is carried as its two 16-bit halves
\* <<high, low>>, because it does not fit TLC's signed 32-bit integers.
Md5Table ==
    { <<"1.0", 58562, 59629>>, <<"2.0", 53693, 33699>>, <<"3.0", 21960, 11104>>,
      <<"4.0", 1799, 35479>>, <<"62356.0", 53385, 64971>>,
      <<"62357.0", 20327, 14289>>, <<"62358.0", 13275, 62088>>,
      <<"999999.0", 45123, 60412>>, <<"548.0", 27843, 22393>>, <<"549.0", 55493, 33626>>,
      <<"1", 50378, 16952>>, <<"2", 51230, 29325>>, <<"3", 60619, 51326>>,
      <<"4", 43135, 63097>>, <<"62356", 52323, 24238>>, <<"62357", 49278, 46427>>,
      <<"62358", 57500, 63039>>, <<"999999", 21190, 40506>> }

Md5Hex8(text) ==
    LET e == CHOOSE t \in Md5Table : t[1] = text IN <<e[2], e[3]>>

\* str(x) of a value taken from a row yielded by DataFrame.iterrows(): the row is
\* a float64 Series (the frame has float columns), so 62356 prints as "62356.0"
PyStrFloat(x) == ToString(x) \o ".0"

\* hash_int % 13000, by long division on the halves
HashMod13000(h) == ((h[1] % 13000) * 65536 + h[2]) % 13000

\* hash_int // 13000, by long division on the halves
HashDiv13000(h) ==
    (h[1] \div 13000) * 65536 + ((h[1] % 13000) * 65536 + h[2]) \div 13000

\* a slip in the latitude modulus: 18000 for 13000
CoordinatesOfHashWide(hash_int) ==
    <<(((hash_int[1] % 18000) * 65536 + hash_int[2]) % 18000) - 6000,
      (HashDiv13000(hash_int) % 36000) - 18000>>

\* the last two statements of generate_coordinates: <<lat, lon>> in hundredths
CoordinatesOfHash(hash_int) ==
    <<HashMod13000(hash_int) - 6000, (HashDiv13000(hash_int) % 36000) - 18000>>

\* generate_coordinates, nested in _get_enriched_forecasts
GenerateCoordinates(grid_id) == CoordinatesOfHash(Md5Hex8(PyStrFloat(grid_id)))

\* _generate_coordinates_for_grid
GenerateCoordinatesForGrid(grid_id) == CoordinatesOfHash(Md5Hex8(PyStrFloat(grid_id)))

EpochYear == 2025

EpochMonthId == 548

\* year = 2025 + (month_id - 548) // 12
YearOf(month_id) == EpochYear + (month_id - EpochMonthId) \div 12

\* the remainder truncated toward zero, as in C or Java
MonthOfTruncated(month_id) ==
    LET d == month_id - EpochMonthId
    IN (IF d >= 0 THEN d % 12 ELSE 0 - ((0 - d) % 12)) + 1

\* month = ((month_id - 548) % 12) + 1
MonthOf(month_id) == ((month_id - EpochMonthId) % 12) + 1

\* coord_lookup: priogrid_id -> the last row of all_coords with that id
CoordLookup(all_coords) ==
    LET ids == {all_coords[i].priogrid_id : i \in 1..Len(all_coords)}
        LastIdx(g) == SetMax({i \in 1..Len(all_coords) : all_coords[i].priogrid_id = g})
    IN [g \in ids |-> all_coords[LastIdx(g)]]

\* country_map = {c['country_id']: c['country'] for c in country_data}
CountryMap(countries) ==
    LET ids == {countries[i].country_id : i \in 1..Len(countries)}
        LastIdx(c) == SetMax({i \in 1..Len(countries) : countries[i].country_id = c})
    IN [c \in ids |-> countries[LastIdx(c)].country]

\* the generated coordinate hashed from the row's month_id instead of its grid
CoordRowForHashingMonth(row, coord_lookup) ==
    IF row.pg_id \in DOMAIN coord_lookup
    THEN [lat_col |-> ts_lat_col, rows |-> <<coord_lookup[row.pg_id]>>]
    ELSE LET c == GenerateCoordinates(row.month_id)
         IN [lat_col |-> "latitude",
             rows |-> <<[priogrid_id |-> row.pg_id, latitude |-> c[1],
                         longitude |-> c[2], country_id |-> row.country_id]>>]

\* The one-row coordinate frame built for a primary row: the looked-up row, or
\* a generated one carrying the primary row's country_id.  lat_col names the
\* frame's latitude/longitude columns.
CoordRowFor(row, coord_lookup) ==
    IF row.pg_id \in DOMAIN coord_lookup
    THEN [lat_col |-> ts_lat_col, rows |-> <<coord_lookup[row.pg_id]>>]
    ELSE LET c == GenerateCoordinates(row.pg_id)
         IN [lat_col |-> "latitude",
             rows |-> <<[priogrid_id |-> row.pg_id, latitude |-> c[1],
                         longitude |-> c[2], country_id |-> row.country_id]>>]

\* coord_row.get(name) for the latitude and longitude cells
GetLat(frame, r, name) == IF frame.lat_col = name THEN r.latitude ELSE NULL

GetLon(frame, r, name) ==
    IF (frame.lat_col = "lat" /\ name = "lon")
       \/ (frame.lat_col = "latitude" /\ name = "longitude")
    THEN r.longitude ELSE NULL

\* the coordinate part of _create_grid_cell_data: <<lat, lon, country_id_from_coord>>
ExtractCoordinates(grid_id, coord_data) ==
    LET matching == SelectSeq(coord_data.rows, LAMBDA r : r.priogrid_id = grid_id)
        found == matching # << >>
        lat0 == IF found
                THEN PyOr(GetLat(coord_data, matching[1], "lat"),
                          GetLat(coord_data, matching[1], "latitude"))
                ELSE NULL
        lon0 == IF found
                THEN PyOr(GetLon(coord_data, matching[1], "lon"),
                          GetLon(coord_data, matching[1], "longitude"))
                ELSE NULL
        cid == IF found THEN matching[1].country_id ELSE NULL
        gen == GenerateCoordinatesForGrid(grid_id)
    IN IF lat0 = NULL \/ lon0 = NULL THEN <<gen[1], gen[2], cid>>
       ELSE <<lat0, lon0, cid>>

\* the HDI part of _create_grid_cell_data: <<hdi_90_lower, hdi_90_upper>>
ExtractHdi(grid_id, hdi_rows) ==
    LET matching == SelectSeq(hdi_rows, LAMBDA r : r.priogrid_id = grid_id)
    IN IF matching = << >> THEN <<NULL, NULL>>
       ELSE <<matching[1].lower, matching[1].upper>>

\* the precedence inverted: the coordinate row's country_id first
ResolveCountryIdPreferCoord(main_country_id, country_id_from_coord) ==
    IF country_id_from_coord # NULL THEN country_id_from_coord ELSE main_country_id

\* the country part of _create_grid_cell_data: prefer the primary row's
\* country_id, fall back to the coordinate row's
ResolveCountryId(main_country_id, country_id_from_coord) ==
    IF IsNa(main_country_id) /\ country_id_from_coord # NULL
    THEN country_id_from_coord ELSE main_country_id

\* a generic name made up for a country the table does not hold
ResolveCountryNameGeneric(country_id, country_map) ==
    IF IsNa(country_id) THEN NoName
    ELSE IF country_id \in DOMAIN country_map THEN country_map[country_id]
    ELSE "Country"

\* country_map.get(int(country_id)) when country_id is not NaN
ResolveCountryName(country_id, country_map) ==
    IF IsNa(country_id) THEN NoName
    ELSE IF country_id \in DOMAIN country_map THEN country_map[country_id]
    ELSE NoName

\* the generator seeded only when it never was
SeedOnlyFirst(base_prob, g) ==
    IF g.seed = << >> THEN [seed |-> Mod2Pow32(base_prob), pos |-> 0] ELSE g

\* np.random.seed(int(base_prob * 10000) % 2**32): base_prob is in
\* ten-thousandths, so int(base_prob * 10000) is its value
SeedFor(base_prob, g) == [seed |-> Mod2Pow32(base_prob), pos |-> 0]

\* the keys of the dictionary _generate_synthetic_metrics returns, in the
\* order their values are drawn
SyntheticKeys ==
    <<"hdi_50_lower", "hdi_50_upper", "hdi_99_lower", "hdi_99_upper",
      "threshold_2", "threshold_3", "threshold_4", "threshold_5", "threshold_6">>

\* the bounds (lo, hi) of the np.random.uniform call of entry k, in millionths
UniformBounds ==
    <<<<1000, 5000>>, <<1000, 5000>>, <<10000, 30000>>, <<10000, 30000>>,
      <<1000, 10000>>, <<10000, 20000>>, <<20000, 40000>>, <<30000, 60000>>,
      <<50000, 80000>>>>

\* np.random.uniform(lo, hi) drawn from generator state g, in millionths
Uniform(g, lo, hi) == lo + ((hi - lo) * RandomSample(g.seed, g.pos + 1)) \div 10000

\* the state of the generator after one draw
Advance(g) == [g EXCEPT !.pos = @ + 1]

\* entry k of the dictionary, drawn from generator state g:
\*   min(1, base_prob + uniform) for the two upper bounds,
\*   max(0, base_prob - uniform) for every other entry
SyntheticEntry(k, base_prob, g) ==
    LET p == base_prob * 100
        u == Uniform(g, UniformBounds[k][1], UniformBounds[k][2])
    IN IF k \in {2, 4} THEN PyMin(1000000, p + u) ELSE PyMax(0, p - u)

\* _generate_synthetic_metrics called with generator state g: the nine values
\* in the order of SyntheticKeys, and the state the generator is left in
GenerateSyntheticMetrics(base_prob, g) ==
    LET g0 == SeedFor(base_prob, g)
    IN [values |-> [k \in 1..9 |->
                       SyntheticEntry(k, base_prob, [g0 EXCEPT !.pos = @ + k - 1])],
        rng |-> [g0 EXCEPT !.pos = @ + 9]]

\* the flag ignored: the value is always kept
ProjectAlways(flag, value) == value

\* "value if metrics.flag else None"
Project(flag, value) == IF flag THEN value ELSE NULL

\* the GridCellData validators
ValidCoordinates(lat, lon) ==
    /\ lat # NULL => (-9000 <= lat /\ lat <= 9000)
    /\ lon # NULL => (-18000 <= lon /\ lon <= 18000)

\* _create_grid_cell_data, called with generator state g
CreateGridCellData(main_row, hdi_rows, coord_data, country_map, metrics, g) ==
    LET grid_id == main_row.pg_id
        coords == ExtractCoordinates(grid_id, coord_data)
        hdi_values == ExtractHdi(grid_id, hdi_rows)
        \* main_row.get('main_dich', 0.01) and main_row.get('main_dich')
        base_prob == IF pgm_has_dich THEN main_row.main_dich ELSE 100
        main_dich == IF pgm_has_dich THEN main_row.main_dich ELSE NULL
        synthetic == GenerateSyntheticMetrics(base_prob, g)
        synthetic_metrics == synthetic.values
        country_id == ResolveCountryId(main_row.country_id, coords[3])
        rec == [grid_id      |-> grid_id,
                month_id     |-> main_row.month_id,
                country_id   |-> country_id,
                latitude     |-> coords[1],
                longitude    |-> coords[2],
                main_mean    |-> Project(metrics.include_map, main_row.main_mean),
                main_mean_ln |-> Project(metrics.include_map, main_row.main_mean_ln),
                main_dich    |-> Project(metrics.include_thresholds, main_dich),
                hdi_50_lower |-> Project(metrics.include_hdi_50, synthetic_metrics[1]),
                hdi_50_upper |-> Project(metrics.include_hdi_50, synthetic_metrics[2]),
                hdi_90_lower |-> Project(metrics.include_hdi_90, hdi_values[1]),
                hdi_90_upper |-> Project(metrics.include_hdi_90, hdi_values[2]),
                hdi_99_lower |-> Project(metrics.include_hdi_99, synthetic_metrics[3]),
                hdi_99_upper |-> Project(metrics.include_hdi_99, synthetic_metrics[4]),
                threshold_1  |-> Project(metrics.include_thresholds, base_prob),
                threshold_2  |-> Project(metrics.include_thresholds, synthetic_metrics[5]),
                threshold_3  |-> Project(metrics.include_thresholds, synthetic_metrics[6]),
                threshold_4  |-> Project(metrics.include_thresholds, synthetic_metrics[7]),
                threshold_5  |-> Project(metrics.include_thresholds, synthetic_metrics[8]),
                threshold_6  |-> Project(metrics.include_thresholds, synthetic_metrics[9]),
                conflict_type |-> "sb",
                country_name |-> ResolveCountryName(country_id, country_map),
                year         |-> YearOf(main_row.month_id),
                month        |-> MonthOf(main_row.month_id)]
    IN IF IsNa(base_prob)
       THEN \* int(base_prob * 10000) in _generate_synthetic_metrics, before the seed
            [exc |-> "ValueError", detail |-> "cannot convert float NaN to integer",
             rec |-> << >>, rng |-> g]
       ELSE IF ~ValidCoordinates(coords[1], coords[2])
       THEN [exc |-> "PydanticValidationError", detail |-> "coordinate out of range",
             rec |-> << >>, rng |-> synthetic.rng]
       ELSE [exc |-> "ok", detail |-> "", rec |-> rec, rng |-> synthetic.rng]

\* the uncertainty rows matched on the grid alone, whatever their month
EnrichRowAnyMonth(row, hdi, coord_lookup, country_map, metrics, g) ==
    LET hdi_row == SelectSeq(hdi, LAMBDA r : r.priogrid_id = row.pg_id)
        coord_row == CoordRowFor(row, coord_lookup)
    IN CreateGridCellData(row, hdi_row, coord_row, country_map, metrics, g)

\* the body of the loop of _get_enriched_forecasts for one primary row
EnrichRow(row, hdi, coord_lookup, country_map, metrics, g) ==
    LET hdi_row == SelectSeq(hdi, LAMBDA r :
                       r.priogrid_id = row.pg_id /\ r.month_id = row.month_id)
        coord_row == CoordRowFor(row, coord_lookup)
    IN CreateGridCellData(row, hdi_row, coord_row, country_map, metrics, g)

\* the rows visited last to first
RECURSIVE EnrichAllReversed(_, _, _, _, _, _)
EnrichAllReversed(main_data, hdi, coord_lookup, country_map, metrics, g) ==
    IF main_data = << >> THEN << >>
    ELSE LET cell == EnrichRow(main_data[Len(main_data)], hdi, coord_lookup,
                               country_map, metrics, g)
         IN <<cell>> \o EnrichAllReversed(SubSeq(main_data, 1, Len(main_data) - 1),
                                          hdi, coord_lookup, country_map, metrics,
                                          cell.rng)

\* the loop of _get_enriched_forecasts: one cell per row of main_data, in
\* order, each built with the generator as the row before left it
RECURSIVE EnrichAll(_, _, _, _, _, _)
EnrichAll(main_data, hdi, coord_lookup, country_map, metrics, g) ==
    IF main_data = << >> THEN << >>
    ELSE LET cell == EnrichRow(main_data[1], hdi, coord_lookup, country_map,
                               metrics, g)
         IN <<cell>> \o EnrichAll(SubSeq(main_data, 2, Len(main_data)), hdi,
                                  coord_lookup, country_map, metrics, cell.rng)

\* the records built before the first failing row handed to the caller
GetEnrichedForecastsPartial(grid_ids, month_ids, metrics, g) ==
    LET main_data == GetGridData(grid_ids, month_ids)
        hdi == GetHdiData(grid_ids, month_ids)
        coord_lookup == CoordLookup(GetCoordinates(grid_ids))
        country_map == CountryMap(GetAvailableCountries)
        cells == EnrichAll(main_data.rows, hdi, coord_lookup, country_map, metrics, g)
        failed == {i \in 1..Len(cells) : cells[i].exc # "ok"}
        n == IF failed = {} THEN Len(cells) ELSE SetMin(failed) - 1
    IN IF main_data.exc # "ok" THEN main_data @@ [rng |-> g]
       ELSE [exc |-> IF failed = {} THEN "ok" ELSE cells[n + 1].exc,
             detail |-> IF failed = {} THEN "" ELSE cells[n + 1].detail,
             rows |-> [i \in 1..n |-> cells[i].rec],
             rng |-> cells[IF failed = {} THEN n ELSE n + 1].rng]

\* _get_enriched_forecasts, called with generator state g: the outcome and
\* the state the generator is left in (the loop stops at the first row that
\* raises)
GetEnrichedForecasts(grid_ids, month_ids, metrics, g) ==
    LET main_data == GetGridData(grid_ids, month_ids)
        hdi == GetHdiData(grid_ids, month_ids)
        all_coords == GetCoordinates(grid_ids)
        country_map == CountryMap(GetAvailableCountries)
        coord_lookup == CoordLookup(all_coords)
        cells == EnrichAll(main_data.rows, hdi, coord_lookup, country_map, metrics, g)
        failed == {i \in 1..Len(cells) : cells[i].exc # "ok"}
    IN IF main_data.exc # "ok" THEN main_data @@ [rng |-> g]
       ELSE IF failed # {}
       THEN Raise(cells[SetMin(failed)].exc, cells[SetMin(failed)].detail)
                @@ [rng |-> cells[SetMin(failed)].rng]
       ELSE Ok([i \in 1..Len(cells) |-> cells[i].rec])
                @@ [rng |-> cells[Len(cells)].rng]

----------------------------------------------------------------------------
(* ForecastService: the query handlers                                     *)

\* The month filter of get_forecasts_by_grid / get_forecasts_by_country:
\*   month_ids = None
\*   if month_start or month_end: ... [m for m in all_months if start <= m <= end]
\* min() / max() of an empty list raise ValueError.
MonthFilter(month_start, month_end) ==
    IF ~(Truthy(month_start) \/ Truthy(month_end))
    THEN [exc |-> "ok", detail |-> "", month_ids |-> NoneList]
    ELSE LET all_months == GetAvailableMonths
             all == Range(all_months)
         IN IF all = {} /\ (~Truthy(month_start) \/ ~Truthy(month_end))
            THEN [exc |-> "ValueError", detail |-> "min() arg is an empty sequence",
                  month_ids |-> NoneList]
            ELSE LET start == IF Truthy(month_start) THEN month_start ELSE SetMin(all)
                     end == IF Truthy(month_end) THEN month_end ELSE SetMax(all)
                 IN [exc |-> "ok", detail |-> "",
                     month_ids |-> SomeList(SelectSeq(all_months,
                                       LAMBDA m : start <= m /\ m <= end))]

\* get_forecasts_by_grid called with generator state g: the outcome and the
\* state the generator is left in
ForecastsByGrid(grid_ids, month_start, month_end, metrics, g) ==
    LET f == MonthFilter(month_start, month_end)
    IN IF f.exc # "ok" THEN Raise(f.exc, f.detail) @@ [rng |-> g]
       ELSE GetEnrichedForecasts(grid_ids, f.month_ids, metrics, g)

\* get_forecasts_by_country called with generator state g
ForecastsByCountry(country_id, month_start, month_end, metrics, g) ==
    LET grid_ids == GetCountryGrids(country_id)
        f == MonthFilter(month_start, month_end)
    IN IF grid_ids.exc # "ok" THEN grid_ids @@ [rng |-> g]
       ELSE IF f.exc # "ok" THEN Raise(f.exc, f.detail) @@ [rng |-> g]
       ELSE GetEnrichedForecasts(grid_ids.rows, f.month_ids, metrics, g)

\* get_forecasts_by_month called with generator state g
ForecastsByMonth(month_id, country_id, metrics, g) ==
    LET month_data == GetMonthData(month_id, country_id)
        grid_ids == [i \in 1..Len(month_data.rows) |-> month_data.rows[i].pg_id]
    IN IF month_data.exc # "ok"
       THEN Raise(month_data.exc, month_data.detail) @@ [rng |-> g]
       ELSE IF month_data.no_columns
       THEN \* month_data['pg_id'] on a DataFrame without columns
            Raise("KeyError", "pg_id") @@ [rng |-> g]
       ELSE GetEnrichedForecasts(grid_ids, SomeList(<<month_id>>), metrics, g)

\* The endpoints of main.py are coroutines that call the service synchronously:
\* a request is handled to completion before the next one starts.  r is the
\* outcome of the call and the state it leaves the generator in.
Returns(c, r) ==
    /\ call.op = "none"
    /\ call' = c
    /\ outcome' = r.exc
    /\ detail' = r.detail
    /\ result' = r.rows
    /\ rng' = r.rng
    /\ UNCHANGED <<store, threads>>

\* get_forecasts_by_grid
GetForecastsByGrid(grid_ids, month_start, month_end, metrics) ==
    Returns([NoCall EXCEPT !.op = "get_forecasts_by_grid", !.grid_ids = grid_ids,
                           !.month_start = month_start, !.month_end = month_end,
                           !.metrics = metrics],
            ForecastsByGrid(grid_ids, month_start, month_end, metrics, rng))

\* get_forecasts_by_country
GetForecastsByCountry(country_id, month_start, month_end, metrics) ==
    Returns([NoCall EXCEPT !.op = "get_forecasts_by_country",
                           !.country_id = country_id,
                           !.month_start = month_start, !.month_end = month_end,
                           !.metrics = metrics],
            ForecastsByCountry(country_id, month_start, month_end, metrics, rng))

\* get_forecasts_by_month
GetForecastsByMonth(month_id, country_id, metrics) ==
    Returns([NoCall EXCEPT !.op = "get_forecasts_by_month", !.month_id = month_id,
                           !.country_id = country_id, !.metrics = metrics],
            ForecastsByMonth(month_id, country_id, metrics, rng))

\* A caller that constructs the MetricSelection from raw values and passes it
\* to get_forecasts_by_grid: the constructor raises pydantic's validation
\* error before the service is called, otherwise the service runs.
ConstructAndGetForecastsByGrid(grid_ids, raw) ==
    LET c == [NoCall EXCEPT !.op = "get_forecasts_by_grid", !.grid_ids = grid_ids,
                            !.metrics = raw]
    IN IF ~ValidSelection(raw)
       THEN Returns(c, Raise("PydanticValidationError", "conflict_types")
                           @@ [rng |-> rng])
       ELSE GetForecastsByGrid(grid_ids, NULL, NULL, raw)

\* get_grid_data, get_country_grids and get_month_data called on the store
CallGetGridData(grid_ids) ==
    Returns([NoCall EXCEPT !.op = "get_grid_data", !.grid_ids = grid_ids],
            GetGridData(grid_ids, NoneList) @@ [rng |-> rng])

CallGetCountryGrids(country_id) ==
    Returns([NoCall EXCEPT !.op = "get_country_grids", !.country_id = country_id],
            GetCountryGrids(country_id) @@ [rng |-> rng])

CallGetMonthData(month_id, country_id) ==
    Returns([NoCall EXCEPT !.op = "get_month_data", !.month_id = month_id,
                           !.country_id = country_id],
            GetMonthData(month_id, country_id) @@ [rng |-> rng])

\* the except clauses of a forecast endpoint of main.py: the status of the
\* response for the outcome of the service call
StatusCode(exc) ==
    IF exc = "ok" THEN 200
    ELSE IF exc = "DataNotFoundError" THEN 404
    ELSE IF exc = "ValidationError" THEN 400
    ELSE 500

\* the response of a forecast endpoint for the outcome of the last call:
\* ForecastResponse(data=forecasts, total_cells=len(forecasts), ...)
Response ==
    [status |-> StatusCode(outcome),
     total_cells |-> IF outcome = "ok" THEN Len(result) ELSE NULL]

\* get_total_grid_cells
GetTotalGridCells ==
    IF ~is_loaded \/ "pgm_data" \notin assigned THEN 0
    ELSE Cardinality({pgm_data[i].pg_id : i \in 1..Len(pgm_data)})

\* the date_range part of get_basic_info: start_year, start_month_num, ...
DateRange(months) ==
    IF months = << >> THEN << >>
    ELSE LET start_month == months[1]
             end_month == months[Len(months)]
         IN <<[year  |-> EpochYear + (start_month - EpochMonthId) \div 12,
               month |-> ((start_month - EpochMonthId) % 12) + 1,
               month_id |-> start_month],
              [year  |-> EpochYear + (end_month - EpochMonthId) \div 12,
               month |-> ((end_month - EpochMonthId) % 12) + 1,
               month_id |-> end_month]>>

\* get_basic_info; the returned date_range is kept in result
GetBasicInfo ==
    LET months == GetAvailableMonths
    IN Returns([NoCall EXCEPT !.op = "get_basic_info"],
               Ok(DateRange(months)) @@ [rng |-> rng])

\* the list get_countries returns: each available country with
\* grid_cells_count = len(get_country_grids(country_id)), 0 when that raises
CountriesWithCounts ==
    LET countries == GetAvailableCountries
        Count(c) == LET grid_ids == GetCountryGrids(c)
                    IN IF grid_ids.exc = "ok" THEN Len(grid_ids.rows) ELSE 0
    IN [i \in 1..Len(countries) |->
           [country_id |-> countries[i].country_id, country |-> countries[i].country,
            grid_cells_count |-> Count(countries[i].country_id)]]

\* the counts written into the stored country table
GetCountriesInPlace ==
    /\ call.op = "none"
    /\ call' = [NoCall EXCEPT !.op = "get_countries"]
    /\ outcome' = "ok"
    /\ detail' = ""
    /\ result' = CountriesWithCounts
    /\ country_data' = CountriesWithCounts
    /\ UNCHANGED <<is_loaded, assigned, pgm_data, pgm_has_country, pgm_has_dich,
                   hdi_data, timeseries_data, ts_lat_col, ts_has_country,
                   country_grid_mapping, rng, threads>>

\* get_countries: the dictionaries it completes are the fresh ones
\* to_dict('records') built, the store keeps none of them
GetCountries ==
    Returns([NoCall EXCEPT !.op = "get_countries"],
            Ok(CountriesWithCounts) @@ [rng |-> rng])

\* _generate_synthetic_metrics called on its own
GenerateSyntheticMetricsFor(base_prob) ==
    LET synthetic == GenerateSyntheticMetrics(base_prob, rng)
    IN Returns([NoCall EXCEPT !.op = "generate_synthetic_metrics",
                              !.base_prob = base_prob],
               Ok(synthetic.values) @@ [rng |-> synthetic.rng])

\* _generate_synthetic_metrics run step by step by thread t.  Each call on
\* np.random (seed, uniform) is one step: numpy runs it under the generator's
\* lock; everything else the function does is local to the thread.
Invoke(t, base_prob) ==
    /\ threads[t].pc = "idle"
    /\ threads' = [threads EXCEPT ![t] = [pc |-> "seed", base_prob |-> base_prob,
                                          values |-> << >>]]
    /\ UNCHANGED <<store, rng, call, outcome, detail, result>>

\* np.random.seed(int(base_prob * 10000) % 2**32)
SeedStep(t) ==
    /\ threads[t].pc = "seed"
    /\ rng' = SeedFor(threads[t].base_prob, rng)
    /\ threads' = [threads EXCEPT ![t].pc = "draw"]
    /\ UNCHANGED <<store, call, outcome, detail, result>>

\* the next entry of the dictionary: one np.random.uniform and its clamp; the
\* function returns after the ninth
DrawStep(t) ==
    LET k == Len(threads[t].values) + 1
    IN /\ threads[t].pc = "draw"
       /\ threads' = [threads EXCEPT
              ![t].values = Append(@, SyntheticEntry(k, threads[t].base_prob, rng)),
              ![t].pc = IF k = 9 THEN "done" ELSE "draw"]
       /\ rng' = Advance(rng)
       /\ UNCHANGED <<store, call, outcome, detail, result>>

\* The endpoint has sent its response (or its error): nothing of the call is kept
Respond ==
    /\ call.op # "none"
    /\ call' = NoCall
    /\ outcome' = "none"
    /\ detail' = ""
    /\ result' = << >>
    /\ UNCHANGED <<store, rng, threads>>

----------------------------------------------------------------------------
(* Specification of the query service                                      *)

MaxRows == 2

Grids == {1, 2}

Months == {548, 549}

PgmRows(countries, probs) ==
    [pg_id : Grids, month_id : Months, country_id : countries, main_dich : probs,
     main_mean : {10}, main_mean_ln : {20}]

\* primary files with and without a country_id column
PgmFiles(countries, probs, n) ==
    {[rows |-> r, has_country |-> TRUE, has_dich |-> TRUE] :
        r \in SeqsUpTo(PgmRows(countries, probs), n)}
    \cup
    {[rows |-> r, has_country |-> FALSE, has_dich |-> TRUE] :
        r \in SeqsUpTo(PgmRows({NULL}, probs), n)}

TsRows(coords, countries) ==
    {[priogrid_id |-> g, latitude |-> c[1], longitude |-> c[2], country_id |-> k] :
        g \in Grids, c \in coords, k \in countries}

\* coordinate files with and without a country_id column
TsFiles(coords, countries, latcols, n) ==
    {[rows |-> r, lat_col |-> l, has_country |-> TRUE] :
        r \in SeqsUpTo(TsRows(coords, countries), n), l \in latcols}
    \cup
    {[rows |-> r, lat_col |-> l, has_country |-> FALSE] :
        r \in SeqsUpTo(TsRows(coords, {NULL}), n) \ {<< >>}, l \in latcols}

HdiRows == {[priogrid_id |-> 1, month_id |-> 548, lower |-> 50, upper |-> 150]}

CountryFile == <<[country_id |-> 1, country |-> "Testland"]>>

QueryGridLists == {<<1>>, <<1, 2>>, <<3>>}

QueryStarts == {NULL, 549, 550}

QueryEnds == {NULL, 548, 549}

QueryCountries == {1, 2}

QueryMonths == {548, 549, 550}

Threads == {1, 2}

\* no invocation in progress
Idle == [pc |-> "idle", base_prob |-> NULL, values |-> << >>]

Init ==
    /\ InitStore
    /\ rng = Unseeded
    /\ threads = [t \in Threads |-> Idle]
    /\ call = NoCall
    /\ outcome = "none"
    /\ detail = ""
    /\ result = << >>

Load ==
    LoadData(PgmFiles({NULL, 1}, {100}, MaxRows), {CountryFile},
             SeqsUpTo(HdiRows, 1),
             TsFiles({<<4500, 1200>>}, {NULL, 2}, {"latitude"}, 1))

ByGrid ==
    \E g \in QueryGridLists, ms \in QueryStarts, me \in QueryEnds :
        GetForecastsByGrid(g, ms, me, DefaultMetrics)

ByCountry ==
    \E c \in QueryCountries, ms \in QueryStarts, me \in QueryEnds :
        GetForecastsByCountry(c, ms, me, DefaultMetrics)

ByMonth ==
    \E m \in QueryMonths, c \in QueryCountries \cup {NULL} :
        GetForecastsByMonth(m, c, DefaultMetrics)

Next == Load \/ ByGrid \/ ByCountry \/ ByMonth \/ GetBasicInfo \/ Respond

Spec == Init /\ [][Next]_vars

----------------------------------------------------------------------------
(* Properties of the query service                                         *)

IsForecastQuery ==
    call.op \in {"get_forecasts_by_grid", "get_forecasts_by_country",
                 "get_forecasts_by_month"}

IsRangeQuery == call.op \in {"get_forecasts_by_grid", "get_forecasts_by_country"}

RangeGiven == Truthy(call.month_start) \/ Truthy(call.month_end)

\* m lies in the requested range [month_start, month_end]; an absent end is open
InRequestedRange(m) ==
    /\ Truthy(call.month_start) => call.month_start <= m
    /\ Truthy(call.month_end) => m <= call.month_end

\* the grid cells the call asks for
RequestedGrids ==
    IF call.op = "get_forecasts_by_grid" THEN Range(call.grid_ids)
    ELSE IF call.op = "get_forecasts_by_country"
    THEN IF call.country_id \in DOMAIN country_grid_mapping
         THEN Range(country_grid_mapping[call.country_id]) ELSE {}
    ELSE {pgm_data[i].pg_id : i \in 1..Len(pgm_data)}

\* the country a primary row belongs to for the country filter of a month query
RowInCountry(r, c) ==
    IF pgm_has_country THEN r.country_id = c
    ELSE /\ c \in DOMAIN country_grid_mapping
         /\ r.pg_id \in Range(country_grid_mapping[c])

\* the primary row at index i is one the call asks for
RowRequested(i) ==
    LET r == pgm_data[i]
    IN IF IsRangeQuery
       THEN r.pg_id \in RequestedGrids /\ InRequestedRange(r.month_id)
       ELSE /\ r.month_id = call.month_id
            /\ Truthy(call.country_id) => RowInCountry(r, call.country_id)

RequestedRows == {i \in 1..Len(pgm_data) : RowRequested(i)}

RecordsOf(g, m) == {j \in 1..Len(result) : result[j].grid_id = g /\ result[j].month_id = m}

PrimaryRowsOf(g, m) ==
    {i \in 1..Len(pgm_data) : pgm_data[i].pg_id = g /\ pgm_data[i].month_id = m}

\* C1: a forecast query returns exactly one record for each requested
\* (grid_id, month_id) pair that has a row in the primary source, and no record
\* for a pair that has no primary row.
C1_OneRecordPerPair ==
    (IsForecastQuery /\ outcome = "ok") =>
        /\ \A i \in RequestedRows :
               Cardinality(RecordsOf(pgm_data[i].pg_id, pgm_data[i].month_id)) = 1
        /\ \A j \in 1..Len(result) :
               PrimaryRowsOf(result[j].grid_id, result[j].month_id) # {}

\* C2: with a month range, every returned record lies inside the range, every
\* primary row of a requested grid inside the range is returned, and the call
\* fails with DataNotFoundError when no primary row falls inside the range.
C2_RangeRespected ==
    (IsRangeQuery /\ RangeGiven /\ is_loaded) =>
        /\ outcome = "ok" =>
              /\ \A j \in 1..Len(result) : InRequestedRange(result[j].month_id)
              /\ \A i \in RequestedRows :
                     RecordsOf(pgm_data[i].pg_id, pgm_data[i].month_id) # {}
        /\ RequestedRows = {} => outcome = "DataNotFoundError"

\* C3: a query that matches no primary row on a loaded store raises
\* DataNotFoundError: it returns no list and fails with no other error.
C3_EmptyIsNotFound ==
    (IsForecastQuery /\ is_loaded /\ RequestedRows = {}) =>
        outcome = "DataNotFoundError"

\* the primary rows whose (grid, month) key occurs in the result, in file order
SourceRowsOfResult ==
    SelectSeq(pgm_data, LAMBDA r :
        \E j \in 1..Len(result) :
            result[j].grid_id = r.pg_id /\ result[j].month_id = r.month_id)

\* C4: the returned records are in the order of the matching rows of the
\* primary source: the i-th record is built from the i-th matching row.
C4_SourceOrder ==
    (IsForecastQuery /\ outcome = "ok") =>
        /\ Len(result) = Len(SourceRowsOfResult)
        /\ \A i \in 1..Len(result) :
               /\ result[i].grid_id = SourceRowsOfResult[i].pg_id
               /\ result[i].month_id = SourceRowsOfResult[i].month_id
               /\ result[i].main_dich = SourceRowsOfResult[i].main_dich

\* a result of two records or more whose keys differ: the order can be told
C4_Witness ==
    /\ IsForecastQuery /\ outcome = "ok"
    /\ Len(result) >= 2
    /\ \E i, j \in 1..Len(result) :
           i < j /\ <<result[i].grid_id, result[i].month_id>>
                      # <<result[j].grid_id, result[j].month_id>>

\* C5: month_id 548 is August 2025 in every enriched record and in the
\* date_range of get_basic_info.
C5_EpochIsAugust2025 ==
    /\ (IsForecastQuery /\ outcome = "ok") =>
           \A j \in 1..Len(result) :
               result[j].month_id = 548 =>
                   result[j].year = 2025 /\ result[j].month = 8
    /\ (call.op = "get_basic_info" /\ outcome = "ok") =>
           \A j \in 1..Len(result) :
               result[j].month_id = 548 =>
                   result[j].year = 2025 /\ result[j].month = 8

\* the rows of the uncertainty source for the key (g, m)
HdiRecordsOf(g, m) ==
    {i \in 1..Len(hdi_data) :
        hdi_data[i].priogrid_id = g /\ hdi_data[i].month_id = m}

\* C12: with include_hdi_90, a record's hdi_90_lower and hdi_90_upper are the
\* bounds of an uncertainty record of the same (grid_id, month_id) key when
\* one exists, and null when none exists for that exact key.
C12_Hdi90RealOrNothing ==
    (IsForecastQuery /\ outcome = "ok" /\ call.metrics.include_hdi_90) =>
        \A j \in 1..Len(result) :
            LET recs == HdiRecordsOf(result[j].grid_id, result[j].month_id)
            IN IF recs = {}
               THEN result[j].hdi_90_lower = NULL /\ result[j].hdi_90_upper = NULL
               ELSE \E i \in recs :
                        /\ result[j].hdi_90_lower = hdi_data[i].lower
                        /\ result[j].hdi_90_upper = hdi_data[i].upper

\* one grid in two months, the uncertainty source covering only one of them
C12_Witness ==
    /\ IsForecastQuery /\ outcome = "ok" /\ call.metrics.include_hdi_90
    /\ \E i, j \in 1..Len(result) :
           /\ result[i].grid_id = result[j].grid_id
           /\ HdiRecordsOf(result[i].grid_id, result[i].month_id) # {}
           /\ result[i].hdi_90_lower # NULL
           /\ HdiRecordsOf(result[j].grid_id, result[j].month_id) = {}
           /\ result[j].hdi_90_lower = NULL

----------------------------------------------------------------------------
(* Specification of the coordinate and country resolution: the same service *)
(* over coordinate files of several rows, with either column naming         *)

MaxCoordRows == 2

GeoCoords == {<<0, 1200>>, <<4500, 0>>, <<4500, 1200>>}

\* primary files of two rows, one of month 548 and one of month 549
GeoPgmFiles ==
    {[rows |-> <<a, b>>, has_country |-> TRUE, has_dich |-> TRUE] :
        a \in {r \in PgmRows({NULL, 1}, {100}) : r.month_id = 548},
        b \in {r \in PgmRows({NULL, 1}, {100}) : r.month_id = 549}}
    \cup
    {[rows |-> <<a, b>>, has_country |-> FALSE, has_dich |-> TRUE] :
        a \in {r \in PgmRows({NULL}, {100}) : r.month_id = 548},
        b \in {r \in PgmRows({NULL}, {100}) : r.month_id = 549}}

\* country tables that hold country 1, or country 2
GeoCountryFiles == {CountryFile, <<[country_id |-> 2, country |-> "Democracia"]>>}

GeoLoad ==
    LoadData(GeoPgmFiles, GeoCountryFiles, {<< >>},
             TsFiles(GeoCoords, {NULL, 2}, {"latitude", "lat"}, MaxCoordRows))

GeoByGrid ==
    \E g \in {<<1>>, <<1, 2>>} : GetForecastsByGrid(g, NULL, NULL, DefaultMetrics)

GeoByCountry == GetForecastsByCountry(1, NULL, NULL, DefaultMetrics)

GeoByMonth == \E c \in {NULL, 1} : GetForecastsByMonth(548, c, DefaultMetrics)

GeoNext == GeoLoad \/ GeoByGrid \/ GeoByCountry \/ GeoByMonth \/ Respond

SpecGeo == Init /\ [][GeoNext]_vars

\* the rows of the coordinate source for grid g
CoordinateRecordsOf(g) ==
    {i \in 1..Len(timeseries_data) : timeseries_data[i].priogrid_id = g}

\* C7: when the coordinate source has a record for the grid, the record's
\* latitude and longitude are those of a source record of that grid, whatever
\* their values (0 included): the hash-derived coordinate is not used.
C7_SourceCoordinateAuthoritative ==
    (IsForecastQuery /\ outcome = "ok") =>
        \A j \in 1..Len(result) :
            CoordinateRecordsOf(result[j].grid_id) # {} =>
                \E i \in CoordinateRecordsOf(result[j].grid_id) :
                    /\ result[j].latitude = timeseries_data[i].latitude
                    /\ result[j].longitude = timeseries_data[i].longitude

\* C9: in one result, two records of the same grid have the same latitude and
\* the same longitude, whatever their months and wherever the coordinate came from.
C9_CoordinateConstantPerGrid ==
    (IsForecastQuery /\ outcome = "ok") =>
        \A i, j \in 1..Len(result) :
            result[i].grid_id = result[j].grid_id =>
                /\ result[i].latitude = result[j].latitude
                /\ result[i].longitude = result[j].longitude

\* one grid in two months, with two source rows of different coordinates
C9_WitnessSource ==
    /\ IsForecastQuery /\ outcome = "ok"
    /\ \E i, j \in 1..Len(result) :
           /\ result[i].grid_id = result[j].grid_id
           /\ result[i].month_id # result[j].month_id
           /\ \E a, b \in CoordinateRecordsOf(result[i].grid_id) :
                  timeseries_data[a].latitude # timeseries_data[b].latitude

\* one grid in two months, absent from the coordinate source
C9_Witness ==
    /\ IsForecastQuery /\ outcome = "ok"
    /\ \E i, j \in 1..Len(result) :
           /\ result[i].grid_id = result[j].grid_id
           /\ result[i].month_id # result[j].month_id
           /\ CoordinateRecordsOf(result[i].grid_id) = {}

\* the country_id of the coordinate record resolved for grid g: that of the
\* last source row of the grid, NULL when the source has no row for it
CoordinateCountryOf(g) ==
    IF CoordinateRecordsOf(g) = {} THEN NULL
    ELSE timeseries_data[SetMax(CoordinateRecordsOf(g))].country_id

\* C10: the resolved country_id is the primary row's when that is not null,
\* otherwise the coordinate record's when that is not null, otherwise null.
C10_CountryFallbackChain ==
    (IsForecastQuery /\ outcome = "ok" /\ Len(result) = Len(SourceRowsOfResult)) =>
        \A j \in 1..Len(result) :
            LET r == SourceRowsOfResult[j]
            IN result[j].country_id =
                   IF r.country_id # NULL THEN r.country_id
                   ELSE CoordinateCountryOf(r.pg_id)

\* one result with a record that kept its primary country although the
\* coordinate record names another, and a record that fell back
C10_Witness ==
    /\ IsForecastQuery /\ outcome = "ok" /\ Len(result) = Len(SourceRowsOfResult)
    /\ \E j \in 1..Len(result) :
           /\ SourceRowsOfResult[j].country_id # NULL
           /\ CoordinateCountryOf(result[j].grid_id) # NULL
           /\ CoordinateCountryOf(result[j].grid_id) # SourceRowsOfResult[j].country_id
    /\ \E j \in 1..Len(result) :
           /\ SourceRowsOfResult[j].country_id = NULL
           /\ CoordinateCountryOf(result[j].grid_id) # NULL
           /\ result[j].country_id = CoordinateCountryOf(result[j].grid_id)

\* the display names the country table stores for country c
CountryNamesOf(c) ==
    {country_data[i].country : i \in {k \in 1..Len(country_data) :
                                          country_data[k].country_id = c}}

\* C11: a record's country_name is the name the country table stores for the
\* record's resolved country_id; it is null when the country_id is null or has
\* no entry in the table, so no name outside the table is ever produced.
C11_CountryNameFromTable ==
    (IsForecastQuery /\ outcome = "ok") =>
        \A j \in 1..Len(result) :
            IF result[j].country_id = NULL \/ CountryNamesOf(result[j].country_id) = {}
            THEN result[j].country_name = NoName
            ELSE result[j].country_name \in CountryNamesOf(result[j].country_id)

\* one result with a named record and a record whose country the table lacks
C11_Witness ==
    /\ IsForecastQuery /\ outcome = "ok"
    /\ \E j \in 1..Len(result) :
           /\ result[j].country_id # NULL
           /\ result[j].country_name \in CountryNamesOf(result[j].country_id)
    /\ \E j \in 1..Len(result) :
           /\ result[j].country_id # NULL
           /\ CountryNamesOf(result[j].country_id) = {}
           /\ result[j].country_name = NoName

----------------------------------------------------------------------------
(* Specification of the calendar conversion: the month_id -> (year, month)  *)
(* statements of _create_grid_cell_data applied to a month and to the next  *)

MonthSpan == 300

CalendarMonthIds == (EpochMonthId - MonthSpan)..(EpochMonthId + MonthSpan)

CalendarOf(month_id) ==
    [month_id |-> month_id, year |-> YearOf(month_id), month |-> MonthOf(month_id)]

DeriveCalendar(month_id) ==
    Returns([NoCall EXCEPT !.op = "derive_calendar", !.month_id = month_id],
            Ok(<<CalendarOf(month_id), CalendarOf(month_id + 1)>>) @@ [rng |-> rng])

CalendarNext == (\E m \in CalendarMonthIds : DeriveCalendar(m)) \/ Respond

SpecCalendar == Init /\ [][CalendarNext]_vars

\* C6: for every month_id the derived month is in 1..12, and the next month_id
\* is the next calendar month: month + 1 in the same year, or January of the
\* next year after December.
C6_CalendarAdvancesByOneMonth ==
    call.op = "derive_calendar" =>
        LET a == result[1]
            b == result[2]
        IN /\ a.month \in 1..12
           /\ b.month \in 1..12
           /\ \/ b.month = a.month + 1 /\ b.year = a.year
              \/ a.month = 12 /\ b.month = 1 /\ b.year = a.year + 1

\* a year wrap before the epoch
C6_Witness ==
    /\ call.op = "derive_calendar"
    /\ call.month_id < EpochMonthId - 12
    /\ result[1].month = 12
    /\ result[2].month = 1

----------------------------------------------------------------------------
(* Specification of the synthetic coordinate: the hash mapping applied to   *)
(* 32-bit values given by their halves, and to the grids of the MD5 table   *)

HashHalves ==
    {0, 1, 2, 6, 12999, 13000, 13001, 25999, 26000, 32767, 32768, 35999, 36000,
     50000, 65534, 65535}

HashedGrids == {1, 2, 3, 4, 62356, 62357, 62358, 999999}

MapHash(hash_int) ==
    LET c == CoordinatesOfHash(hash_int)
    IN Returns([NoCall EXCEPT !.op = "map_hash", !.grid_ids = hash_int],
               Ok([latitude |-> c[1], longitude |-> c[2]]) @@ [rng |-> rng])

GenerateFor(grid_id) ==
    LET c == GenerateCoordinatesForGrid(grid_id)
    IN Returns([NoCall EXCEPT !.op = "generate_coordinates",
                              !.grid_ids = Md5Hex8(PyStrFloat(grid_id))],
               Ok([latitude |-> c[1], longitude |-> c[2]]) @@ [rng |-> rng])

HashNext ==
    \/ \E hi \in HashHalves, lo \in HashHalves : MapHash(<<hi, lo>>)
    \/ \E g \in HashedGrids : GenerateFor(g)
    \/ Respond

SpecHash == Init /\ [][HashNext]_vars

\* h mod 13000 and (h div 13000) mod 36000 of the 32-bit value h = <<high, low>>,
\* computed from its low 31 bits and 2^31 = 165191 * 13000 + 648
Low31(h) == (h[1] % 32768) * 65536 + h[2]

RefMod13000(h) ==
    IF h[1] < 32768 THEN Low31(h) % 13000 ELSE ((Low31(h) % 13000) + 648) % 13000

RefDiv13000(h) ==
    IF h[1] < 32768 THEN Low31(h) \div 13000
    ELSE 165191 + Low31(h) \div 13000 + ((Low31(h) % 13000) + 648) \div 13000

\* C8: the synthetic coordinate of a hash value h is
\* latitude = (h mod 13000)/100 - 60 in [-60, 70) and
\* longitude = ((h div 13000) mod 36000)/100 - 180 in [-180, 180),
\* and passes the schema's range validation.
C8_SyntheticCoordinateInRange ==
    call.op \in {"map_hash", "generate_coordinates"} =>
        /\ result.latitude = RefMod13000(call.grid_ids) - 6000
        /\ result.longitude = (RefDiv13000(call.grid_ids) % 36000) - 18000
        /\ -6000 <= result.latitude /\ result.latitude < 7000
        /\ -18000 <= result.longitude /\ result.longitude < 18000
        /\ ValidCoordinates(result.latitude, result.longitude)

\* the synthetic coordinate of a grid, from a hash value above 2^31
C8_Witness ==
    /\ call.op = "generate_coordinates"
    /\ call.grid_ids[1] >= 32768
    /\ result.latitude < 0

----------------------------------------------------------------------------
(* Specification of the synthetic metrics and of the metric projection:    *)
(* stores of two primary rows over a range of point estimates, queried     *)
(* under every selection of the five include flags                         *)

\* main_dich values in ten-thousandths: 0, 0.01, 0.5, 0.999, and the values
\* 1.2 and -0.5 that lie outside [0, 1]
SynthProbs == {0, 100, 5000, 9990, 12000, -5000}

AllSelections ==
    {MetricSelection(a, b, c, d, e, <<"sb">>) : a, b, c, d, e \in BOOLEAN}

AllOn == MetricSelection(TRUE, TRUE, TRUE, TRUE, TRUE, <<"sb">>)

AllOff == MetricSelection(FALSE, FALSE, FALSE, FALSE, FALSE, <<"sb">>)

\* grid 1 and grid 2 in month 548, each with its own point estimate
SynthPgmFiles ==
    {[rows |-> <<[pg_id |-> 1, month_id |-> 548, country_id |-> 1, main_dich |-> p1,
                  main_mean |-> 10, main_mean_ln |-> 20],
                 [pg_id |-> 2, month_id |-> 548, country_id |-> NULL, main_dich |-> p2,
                  main_mean |-> 10, main_mean_ln |-> 20]>>,
      has_country |-> TRUE, has_dich |-> TRUE] : p1 \in SynthProbs, p2 \in SynthProbs}

\* no coordinate file, or one that holds grid 1 only
SynthTsFiles ==
    {[rows |-> << >>, lat_col |-> "latitude", has_country |-> FALSE],
     [rows |-> <<[priogrid_id |-> 1, latitude |-> 4500, longitude |-> 1200,
                  country_id |-> NULL]>>,
      lat_col |-> "latitude", has_country |-> FALSE]}

SynthLoad == LoadData(SynthPgmFiles, {CountryFile}, SeqsUpTo(HdiRows, 1), SynthTsFiles)

SynthByGrid ==
    \E g \in {<<1>>, <<1, 2>>}, m \in AllSelections :
        GetForecastsByGrid(g, NULL, NULL, m)

SynthByMonth == \E m \in AllSelections : GetForecastsByMonth(548, NULL, m)

SynthGenerate == \E p \in SynthProbs : GenerateSyntheticMetricsFor(p)

SynthNext == SynthLoad \/ SynthByGrid \/ SynthByMonth \/ SynthGenerate \/ Respond

SpecSynthetic == Init /\ [][SynthNext]_vars

IsGenerate == call.op = "generate_synthetic_metrics"

\* 1.0 in millionths
One == 1000000

\* C13: every value _generate_synthetic_metrics returns lies in [0, 1],
\* whatever the point estimate.
C13_SyntheticValuesInUnitInterval ==
    IsGenerate => \A k \in 1..9 : 0 <= result[k] /\ result[k] <= One

\* C14: the synthetic 50% and 99% bands have lower <= upper for every point
\* estimate, and enclose the point estimate when it lies in [0, 1].
C14_SyntheticBandsOrdered ==
    IsGenerate =>
        /\ result[1] <= result[2]
        /\ result[3] <= result[4]
        /\ (0 <= call.base_prob /\ call.base_prob <= 10000) =>
               /\ result[1] <= call.base_prob * 100
               /\ call.base_prob * 100 <= result[2]
               /\ result[3] <= call.base_prob * 100
               /\ call.base_prob * 100 <= result[4]

\* C15: for a point estimate in [0, 1] the six thresholds do not increase:
\* threshold_1 (the point estimate) >= threshold_2 >= ... >= threshold_6.
C15_ThresholdsNonIncreasing ==
    (IsGenerate /\ 0 <= call.base_prob /\ call.base_prob <= 10000) =>
        /\ call.base_prob * 100 >= result[5]
        /\ \A k \in 5..8 : result[k] >= result[k + 1]

\* the outcome of running call c again on the store, from generator state g
Replay(c, g) ==
    IF c.op = "get_forecasts_by_grid"
    THEN ForecastsByGrid(c.grid_ids, c.month_start, c.month_end, c.metrics, g)
    ELSE IF c.op = "get_forecasts_by_country"
    THEN ForecastsByCountry(c.country_id, c.month_start, c.month_end, c.metrics, g)
    ELSE IF c.op = "get_forecasts_by_month"
    THEN ForecastsByMonth(c.month_id, c.country_id, c.metrics, g)
    ELSE Ok(GenerateSyntheticMetrics(c.base_prob, g).values)

\* the states an earlier call can leave the generator in
GeneratorStates ==
    {Unseeded} \cup {[seed |-> <<0, 42>>, pos |-> k] : k \in {0, 2, 4}}
               \cup {[seed |-> Mod2Pow32(q), pos |-> k] : q \in SynthProbs, k \in {0, 9}}

\* C16: running the same call again on the same store, whatever calls ran in
\* between and whatever state they left the generator in, returns the same
\* records: synthetic coordinates, hdi_50 and hdi_99 bounds and
\* threshold_2 .. threshold_6 included.
C16_SyntheticValuesReproducible ==
    (IsForecastQuery \/ IsGenerate) =>
        /\ rng \in GeneratorStates
        /\ \A g \in GeneratorStates :
               /\ Replay(call, g).exc = outcome
               /\ Replay(call, g).rows = result

\* a result with two records of different point estimates, both with their
\* synthetic bounds and thresholds, one of them on a hash-derived coordinate
C16_Witness ==
    /\ IsForecastQuery /\ outcome = "ok"
    /\ call.metrics.include_hdi_50 /\ call.metrics.include_hdi_99
    /\ call.metrics.include_thresholds
    /\ \E i, j \in 1..Len(result) :
           /\ i < j
           /\ result[i].threshold_1 # result[j].threshold_1
           /\ result[i].hdi_50_lower # result[j].hdi_50_lower
           /\ CoordinateRecordsOf(result[j].grid_id) = {}

\* the records of the same call under the selection with every flag set
FullRecords == Replay([call EXCEPT !.metrics = AllOn], Unseeded).rows

\* field f of record j is governed by flag: null when the flag is false, the
\* value of the record of the full selection when it is true
Governed(j, f, flag, full) ==
    result[j][f] = IF flag THEN full[j][f] ELSE NULL

C19_AllOffOnlyIdentity ==
    (IsForecastQuery /\ is_loaded /\ call.metrics = AllOff) =>
        /\ outcome = "ok"
        /\ \A j \in 1..Len(result) :
               /\ \A f \in {"main_mean", "main_mean_ln", "main_dich",
                             "hdi_50_lower", "hdi_50_upper", "hdi_90_lower",
                             "hdi_90_upper", "hdi_99_lower", "hdi_99_upper",
                             "threshold_1", "threshold_2", "threshold_3",
                             "threshold_4", "threshold_5", "threshold_6"} :
                      result[j][f] = NULL
               /\ result[j].conflict_type = NoName
               /\ result[j].grid_id # NULL /\ result[j].month_id # NULL
               /\ result[j].year # NULL /\ result[j].month # NULL
               /\ result[j].latitude # NULL /\ result[j].longitude # NULL

----------------------------------------------------------------------------
(* Specification of two concurrent invocations of                          *)
(* _generate_synthetic_metrics on the one generator of the process         *)

ConcurrentProbs == {100, 5000}

ConcurrentInvoke ==
    \E t \in Threads, p \in ConcurrentProbs :
        /\ \A u \in Threads \ {t} : threads[u].base_prob # p
        /\ Invoke(t, p)

ConcurrentSeed == \E t \in Threads : SeedStep(t)

ConcurrentDraw == \E t \in Threads : DrawStep(t)

ConcurrentNext == ConcurrentInvoke \/ ConcurrentSeed \/ ConcurrentDraw

SpecConcurrent == Init /\ [][ConcurrentNext]_vars

\* C17: an invocation that runs while another one does returns the values it
\* returns when run alone, however their seed and draw steps interleave.
C17_ConcurrentInvocationsIndependent ==
    \A t \in Threads :
        threads[t].pc = "done" =>
            threads[t].values =
                GenerateSyntheticMetrics(threads[t].base_prob, Unseeded).values

----------------------------------------------------------------------------
(* Specification of the conflict-type tags of a metric selection: queries  *)
(* whose selection is constructed from raw tags, and queries given a        *)
(* selection whose conflict_types was assigned after construction           *)

TagLists == {<<"sb">>, <<"ns", "os">>, <<"xx">>, <<"sb", "xx">>}

TaggedSelections ==
    {MetricSelection(TRUE, FALSE, TRUE, FALSE, a, t) : a \in BOOLEAN, t \in TagLists}

TagConstructed ==
    \E g \in {<<1>>, <<1, 2>>}, m \in TaggedSelections :
        ConstructAndGetForecastsByGrid(g, m)

TagAssigned ==
    \E g \in {<<1>>, <<1, 2>>}, m \in TaggedSelections :
        GetForecastsByGrid(g, NULL, NULL, m)

TagNext == SynthLoad \/ TagConstructed \/ TagAssigned \/ Respond

SpecTags == Init /\ [][TagNext]_vars

\* C20: a forecast query on a loaded store whose metric selection names a
\* conflict type outside the enumeration fails with the service's
\* ValidationError and returns no records.
C20_UnknownTagIsValidationError ==
    (IsForecastQuery /\ is_loaded /\ ~ValidSelection(call.metrics)) =>
        outcome = "ValidationError" /\ result = << >>

----------------------------------------------------------------------------
(* Specification of record construction over primary files with null point  *)
(* estimates or without a main_dich column, and coordinate files with       *)
(* latitudes outside [-90, 90]                                              *)

MaxFailRows == 2

\* primary rows of month 548 and country 1
FailRows(probs) == {r \in PgmRows({1}, probs) : r.month_id = 548}

\* primary files with a main_dich column (some cells NaN), and without one
FailPgmFiles ==
    {[rows |-> r, has_country |-> TRUE, has_dich |-> TRUE] :
        r \in SeqsUpTo(FailRows({100, 5000, NULL}), MaxFailRows)}
    \cup
    {[rows |-> r, has_country |-> TRUE, has_dich |-> FALSE] :
        r \in SeqsUpTo(FailRows({NULL}), MaxFailRows)}

FailLoad ==
    LoadData(FailPgmFiles, {CountryFile}, SeqsUpTo(HdiRows, 1),
             TsFiles({<<4500, 1200>>, <<9500, 1200>>}, {1}, {"latitude"}, 1))

FailByGrid ==
    \E g \in QueryGridLists, m \in {DefaultMetrics, AllOff} :
        GetForecastsByGrid(g, NULL, NULL, m)

FailByCountry == GetForecastsByCountry(1, NULL, NULL, DefaultMetrics)

FailByMonth == GetForecastsByMonth(548, NULL, DefaultMetrics)

FailNext == FailLoad \/ FailByGrid \/ FailByCountry \/ FailByMonth \/ Respond

SpecFailures == Init /\ [][FailNext]_vars

\* C21: a forecast query returns the complete list, one record for every
\* matching primary row, or raises; when it raises, at whatever row, the
\* caller receives no record at all.
C21_AllOrNothing ==
    IsForecastQuery =>
        /\ outcome = "ok" => Len(result) = Cardinality(RequestedRows)
        /\ outcome # "ok" => result = << >>

\* a query of two rows that fails on the second one, the first one being a
\* row a record can be built from
C21_Witness ==
    /\ IsForecastQuery /\ outcome = "ValueError"
    /\ pgm_has_dich /\ RequestedRows = {1, 2}
    /\ pgm_data[1].main_dich # NULL /\ pgm_data[2].main_dich = NULL
    /\ \A i \in 1..Len(timeseries_data) :
           ValidCoordinates(timeseries_data[i].latitude, timeseries_data[i].longitude)

\* every cell of the coordinate source is inside the ranges GridCellData accepts
SourceCoordinatesValid ==
    \A i \in 1..Len(timeseries_data) :
        ValidCoordinates(timeseries_data[i].latitude, timeseries_data[i].longitude)

\* C22: a query that matches at least one primary row succeeds whatever
\* secondary data is missing (coordinate, uncertainty or country record, a
\* null country_id, a null or missing main_dich).
C22_ConstructionNeverRaises ==
    (IsForecastQuery /\ is_loaded /\ SourceCoordinatesValid /\ RequestedRows # {}) =>
        outcome = "ok"

\* C24: with include_thresholds set, threshold_1 of every record is the
\* main_dich of the primary row it was built from and the record's own
\* main_dich.
C24_ThresholdOneIsMainDich ==
    (IsForecastQuery /\ outcome = "ok" /\ call.metrics.include_thresholds) =>
        /\ Len(result) = Len(SourceRowsOfResult)
        /\ \A j \in 1..Len(result) :
               /\ result[j].threshold_1 = SourceRowsOfResult[j].main_dich
               /\ result[j].threshold_1 = result[j].main_dich

----------------------------------------------------------------------------
(* Specification of the country queries, over primary files whose grids     *)
(* carry country 1 or 2 (a grid may change country from month to month)     *)

MaxCountryRows == 2

\* country 1 listed twice, and country 3 that has no grid cell
CountryTable ==
    <<[country_id |-> 1, country |-> "Testland"],
      [country_id |-> 1, country |-> "Testland"],
      [country_id |-> 3, country |-> "Nogrids"]>>

CountryLoad ==
    LoadData(PgmFiles({1, 2}, {100}, MaxCountryRows), {CountryTable}, {<< >>},
             TsFiles({<<4500, 1200>>}, {1, 2}, {"latitude"}, 1))

CountryByGrid ==
    \E g \in {<<1>>, <<1, 2>>} : GetForecastsByGrid(g, NULL, NULL, DefaultMetrics)

CountryByCountry ==
    \E c \in {1, 2, 3} : GetForecastsByCountry(c, NULL, NULL, DefaultMetrics)

CountryByMonth ==
    \E m \in Months, c \in {NULL, 0, 1, 2} : GetForecastsByMonth(m, c, DefaultMetrics)

CountryNext ==
    \/ CountryLoad \/ CountryByGrid \/ CountryByCountry \/ CountryByMonth
    \/ GetCountries \/ GetBasicInfo \/ Respond

SpecCountries == Init /\ [][CountryNext]_vars

\* C23: every record get_forecasts_by_country(c) returns has country_id = c.
C23_CountryQueryReturnsCountry ==
    (call.op = "get_forecasts_by_country" /\ outcome = "ok") =>
        \A j \in 1..Len(result) : result[j].country_id = call.country_id

\* the primary rows of month m, restricted to country c when c is given
MonthRowsOf(m, c) ==
    {i \in 1..Len(pgm_data) :
        /\ pgm_data[i].month_id = m
        /\ c # NULL => RowInCountry(pgm_data[i], c)}

\* C29: every record get_forecasts_by_month(m, c) returns has month_id = m
\* and, when c is given, country_id = c; the records are the primary rows of
\* month m restricted to c, one record per row.
C29_MonthQueryReturnsMonthAndCountry ==
    (call.op = "get_forecasts_by_month" /\ outcome = "ok") =>
        /\ \A j \in 1..Len(result) :
               /\ result[j].month_id = call.month_id
               /\ call.country_id # NULL => result[j].country_id = call.country_id
        /\ Len(result) = Cardinality(MonthRowsOf(call.month_id, call.country_id))
        /\ \A i \in MonthRowsOf(call.month_id, call.country_id) :
               RecordsOf(pgm_data[i].pg_id, pgm_data[i].month_id) # {}

\* the distinct grid cells the mapping holds for country c
DistinctGridsOf(c) ==
    IF c \in DOMAIN country_grid_mapping THEN Range(country_grid_mapping[c]) ELSE {}

\* C30: get_countries never raises, and grid_cells_count of every country it
\* lists is the number of distinct grid cells of the country (0 for none).
C30_GridCellsCountIsDistinct ==
    call.op = "get_countries" =>
        /\ outcome = "ok"
        /\ \A j \in 1..Len(result) :
               result[j].grid_cells_count =
                   Cardinality(DistinctGridsOf(result[j].country_id))

\* the states a call of this specification can leave the generator in
CountryGeneratorStates ==
    {Unseeded} \cup {[seed |-> <<0, 42>>, pos |-> k] : k \in {0, 2, 4, 6}}
               \cup {[seed |-> Mod2Pow32(100), pos |-> 9]}

\* C26: once the store is loaded no query changes its tables, its flags or
\* the mapping; and what a query returns does not depend on the state earlier
\* calls left the generator in, the only state outside the store.
C26_QueriesReadOnly ==
    /\ [][is_loaded => UNCHANGED store]_vars
    /\ [](IsForecastQuery =>
            /\ rng \in CountryGeneratorStates
            /\ \A g \in CountryGeneratorStates :
                   /\ Replay(call, g).exc = outcome
                   /\ Replay(call, g).rows = result)
    /\ [](call.op = "get_countries" => result = CountriesWithCounts)

\* get_countries answering on a loaded store after a forecast query has left
\* the generator seeded
C26_Witness ==
    /\ is_loaded /\ call.op = "get_countries" /\ Len(result) >= 2
    /\ rng.seed = Mod2Pow32(100)

----------------------------------------------------------------------------
(* Specification of the life cycle of the store: loads that succeed, loads  *)
(* that raise at one of their steps, and calls made before and after        *)

MaxLifeRows == 1

LifePgmFiles == PgmFiles({1}, {100}, MaxLifeRows)

LifeTsFiles == TsFiles({<<4500, 1200>>}, {2}, {"latitude"}, 1)

LifeLoad == LoadData(LifePgmFiles, {CountryFile}, {<< >>}, LifeTsFiles)

LifeLoadFails == LoadDataFails(LifePgmFiles, {CountryFile}, {<< >>}, LifeTsFiles)

LifeGetGridData == \E g \in {<<1>>, <<3>>} : CallGetGridData(g)

LifeGetCountryGrids == \E c \in {1, 3} : CallGetCountryGrids(c)

LifeGetMonthData == \E m \in {548, 550}, c \in {NULL, 1} : CallGetMonthData(m, c)

LifeByGrid == \E g \in {<<1>>, <<3>>} : GetForecastsByGrid(g, NULL, NULL, DefaultMetrics)

LifeByCountry == \E c \in {1, 3} : GetForecastsByCountry(c, NULL, NULL, DefaultMetrics)

LifeByMonth ==
    \E m \in {548, 550}, c \in {NULL, 1} : GetForecastsByMonth(m, c, DefaultMetrics)

LifeNext ==
    \/ LifeLoad \/ LifeLoadFails
    \/ LifeGetGridData \/ LifeGetCountryGrids \/ LifeGetMonthData
    \/ LifeByGrid \/ LifeByCountry \/ LifeByMonth \/ Respond

SpecLifecycle == Init /\ [][LifeNext]_vars

IsStoreLookup == call.op \in {"get_grid_data", "get_country_grids", "get_month_data"}

\* C25: a query made before load_data has completed fails with an outcome of
\* another kind than the not-found outcome of a loaded store
\* (DataNotFoundError), and the caller of the API does not get the not-found
\* status (404) for it.
C25_NotLoadedDistinguishable ==
    ((IsStoreLookup \/ IsForecastQuery) /\ ~is_loaded) =>
        /\ outcome \notin {"ok", "DataNotFoundError"}
        /\ Response.status # 404

\* C27: the store starts not loaded and with no primary table; is_loaded
\* becomes true only in a load_data step that leaves the four tables assigned
\* and the mapping built from them; a load that raises leaves it false; once
\* true it stays true; a loaded store has its four tables; and while the
\* store is not loaded the three lookups raise "Data not loaded".
C27_LoadLifecycle ==
    /\ (~is_loaded /\ "pgm_data" \notin assigned)
    /\ [][(~is_loaded /\ is_loaded') =>
             /\ assigned' = AllTables
             /\ outcome' # "Exception"
             /\ country_grid_mapping' =
                    CreateMappings(pgm_data', pgm_has_country',
                                   timeseries_data', ts_has_country')]_vars
    /\ [][(call.op = "none" /\ call'.op = "load_data" /\ outcome' = "Exception")
              => ~is_loaded']_vars
    /\ [][is_loaded => is_loaded']_vars
    /\ [](is_loaded => assigned = AllTables)
    /\ []((IsStoreLookup /\ ~is_loaded) =>
             (outcome = "DataNotFoundError" /\ detail = "Data not loaded"
              /\ result = << >>))

\* a lookup that raises on a store whose load failed after the primary table
\* was assigned
C27_Witness ==
    /\ ~is_loaded /\ "pgm_data" \in assigned /\ pgm_data # << >>
    /\ IsStoreLookup /\ outcome = "DataNotFoundError"

\* a lookup inside the call raised DataNotFoundError: the call's own outcome,
\* or the get_country_grids call that get_month_data makes for the country
\* filter when the primary file has no country_id column
LookupRaisedNotFound ==
    \/ outcome = "DataNotFoundError"
    \/ /\ call.op = "get_forecasts_by_month" /\ is_loaded
       /\ Truthy(call.country_id) /\ ~pgm_has_country
       /\ GetCountryGrids(call.country_id).exc = "DataNotFoundError"

\* C28: a forecast endpoint answers 404 exactly for DataNotFoundError, 400
\* exactly for ValidationError, 500 for any other exception, and otherwise 200
\* with total_cells = the number of records; a not-found outcome inside the
\* engine is never answered with 500 nor with 200 and an empty list.
C28_StatusOfOutcome ==
    IsForecastQuery =>
        /\ Response.status = 404 <=> outcome = "DataNotFoundError"
        /\ Response.status = 400 <=> outcome = "ValidationError"
        /\ outcome \notin {"ok", "DataNotFoundError", "ValidationError"}
               => Response.status = 500
        /\ outcome = "ok" =>
               /\ Response.status = 200
               /\ Response.total_cells = Len(result)
               /\ result # << >>
        /\ LookupRaisedNotFound => Response.status = 404

====
